---- MODULE Spec2Model ----
(***************************************************************************)
(* A model of diagon: the Retry/Abort loop of stopgate.py                  *)
(* (stop_until_resolved, pause_on_error) and the gated atomic file write   *)
(* of file_gate.py (gate_write, _atomic_replace).                          *)
(*                                                                         *)
(* The two components share no state.  StopSpec runs the retry loop with   *)
(* the file gate parked; GateSpec runs the file gate with the loop parked. *)
(***************************************************************************)
EXTENDS Integers, Sequences, FiniteSets, TLC

(***************************************************************************)
(* Bounds of the exploration.                                              *)
(***************************************************************************)
MaxAttemptsBound == 3   \* largest cfg.max_attempts explored
MaxDeadline == 2        \* largest cfg.deadline_s explored, in clock ticks
MaxTime == 3            \* the monotonic clock is explored up to this tick
MaxCalls == 2           \* calls of stop_until_resolved made one after another

None == "None"

(***************************************************************************)
(* stopgate.py                                                             *)
(***************************************************************************)

\* StopConfig: the two fields the control flow reads, plus show_details.
StopConfig ==
    [max_attempts : 1..MaxAttemptsBound,
     deadline_s   : 0..MaxDeadline,
     show_details : BOOLEAN,
     title        : {"Action required"}]

\* What the prompt callable may return: "retry", "abort", or anything else.
Decisions == {"retry", "abort", "quit"}

\* The type of the exception the i-th invocation of op raises when it fails
\* (both derive from Exception): the operation fails in more than one way,
\* one of them with the type stop_until_resolved itself raises.
ErrTypeOf(i) == IF i % 2 = 1 THEN "ValueError" ELSE "RuntimeError"

\* Arguments a wrapped function is called with; NoArgs marks a direct call
\* of stop_until_resolved with a zero-argument operation.
NoArgs == "noargs"
ArgSet == {"x", "y"}

\* The behaviour of the operation, invocation by invocation.  The loop stops
\* at the first success, so a behaviour is given by the first invocation that
\* succeeds (k = 0: none does).
OpPlans ==
    {[i \in 1..MaxAttemptsBound |-> IF k > 0 /\ i >= k THEN "ok" ELSE "fail"] :
        k \in 0..MaxAttemptsBound}

\* The behaviour of the prompt, call by call.  The loop stops at the first
\* decision that is not "retry", so a behaviour is given by the first call
\* answered d # "retry" (k = 0: every call is answered "retry").
PromptPlans ==
    {[i \in 1..MaxAttemptsBound |-> IF k > 0 /\ i >= k THEN d ELSE "retry"] :
        k \in 0..(MaxAttemptsBound - 1), d \in Decisions \ {"retry"}}

\* An exception object: its type, its text, and which invocation of op made
\* it (0: made by stop_until_resolved itself).
NoExc == [type |-> "none", text |-> "", id |-> 0]
\* What leaves a call: the exception and its __cause__.
NoRaise == [exc |-> NoExc, cause |-> NoExc]
NoValue == [inv |-> 0, args |-> NoArgs]
\* No call is running: there is no operation and no prompt.
NoOp == [i \in 1..MaxAttemptsBound |-> "fail"]
NoPrompt == [i \in 1..MaxAttemptsBound |-> "abort"]

VARIABLES
    pc,          \* position of the caller: idle, loop, except, prompt, done
    cfg,         \* the StopConfig object (shared by all calls)
    now,         \* time.monotonic()
    start,       \* local: start = time.monotonic()
    attempts,    \* local: attempts
    e,           \* the exception bound by "except Exception as e"
    captured,    \* args captured by _inner (NoArgs for a direct call)
    opPlan,      \* how op behaves, invocation by invocation
    promptPlan,  \* what prompt returns, call by call
    opLog,       \* history: one record per invocation of op
    promptLog,   \* history: one record per call of prompt
    checks,      \* history: elapsed time read at each failure
    outcome,     \* how the call ended: returned or the raise site
    result,      \* value returned by the call
    raised,      \* exception that left the call
    calls        \* number of finished calls

stopVars == <<pc, cfg, now, start, attempts, e, captured, opPlan,
              promptPlan, opLog, promptLog, checks, outcome, result, raised,
              calls>>


\* The outcome of the i-th invocation of op.
OpOutcome(i) == IF i \in DOMAIN opPlan THEN opPlan[i] ELSE "fail"
\* The decision of the i-th call of prompt.
PromptDecision(i) == IF i \in DOMAIN promptPlan THEN promptPlan[i] ELSE "abort"

\* The exception raised by the i-th invocation of op.
OpError(i) == [type |-> ErrTypeOf(i), text |-> "op failed", id |-> i]
\* The value returned by the i-th invocation of op, called with args a.
Value(i, a) == [inv |-> i, args |-> a]

\* stopgate.py:112  lambda: fn(*args, **kwargs) -- what fn receives on the
\* i-th invocation, given the arguments _inner captured.
LambdaArgsResolicited(capt, i) == IF i = 1 THEN capt ELSE NoArgs
LambdaArgs(capt, i) == capt

\* stopgate.py:86  cfg.deadline_s and (time.monotonic() - start) >= cfg.deadline_s
DeadlineReachedUnguarded(c, elapsed) == elapsed >= c.deadline_s
DeadlineReached(c, elapsed) == c.deadline_s # 0 /\ elapsed >= c.deadline_s

\* stopgate.py:88  attempts >= cfg.max_attempts
AttemptsExhaustedLate(c, n) == n > c.max_attempts
AttemptsExhaustedEarly(c, n) == n + 1 >= c.max_attempts
AttemptsExhausted(c, n) == n >= c.max_attempts

\* stopgate.py:86-89  the order of the two checks made after a failure:
\* the deadline first, then the attempt limit, else the prompt is called.
FailureExitLimitFirst(c, elapsed, n) ==
    IF AttemptsExhausted(c, n) THEN "MaxAttemptsExceeded"
    ELSE IF DeadlineReached(c, elapsed) THEN "DeadlineExceeded"
    ELSE "prompt"
FailureExit(c, elapsed, n) ==
    IF DeadlineReached(c, elapsed) THEN "DeadlineExceeded"
    ELSE IF AttemptsExhausted(c, n) THEN "MaxAttemptsExceeded"
    ELSE "prompt"

\* stopgate.py:87  raise RuntimeError("Deadline reached; aborting.") from e
DeadlineError(err) ==
    [exc   |-> [type |-> "RuntimeError", text |-> "Deadline reached; aborting.", id |-> 0],
     cause |-> err]
\* stopgate.py:89  raise RuntimeError("Max attempts reached; aborting.") from e
MaxAttemptsErrorNoCause(err) ==
    [exc   |-> [type |-> "RuntimeError", text |-> "Max attempts reached; aborting.", id |-> 0],
     cause |-> NoExc]
MaxAttemptsError(err) ==
    [exc   |-> [type |-> "RuntimeError", text |-> "Max attempts reached; aborting.", id |-> 0],
     cause |-> err]
\* stopgate.py:101  raise  -- re-raises the exception being handled
Reraise(err) == [exc |-> err, cause |-> NoExc]

\* stopgate.py:92-97  the message: the details are always appended
Msg(c, err) ==
    [head |-> "An operation failed.", name |-> err.type, text |-> err.text]

\* stopgate.py:99  action != "retry"
IsRetryAlways(action) == TRUE
IsRetry(action) == action = "retry"

\* stopgate.py:85  except Exception: the types the handler catches.  Every
\* type the operation raises here derives from Exception.
ExceptionTypes == {"ValueError", "RuntimeError"}
CatchesValueErrorOnly(t) == t = "ValueError"
Catches(t) == t \in ExceptionTypes

\* stopgate.py:84  return op(): a success leaves the loop at once, whatever
\* the elapsed time and the attempt count are.
ReturnExitChecked(c, elapsed, n) ==
    IF DeadlineReached(c, elapsed) THEN "DeadlineExceeded"
    ELSE IF n > c.max_attempts THEN "MaxAttemptsExceeded"
    ELSE "returned"
ReturnExit(c, elapsed, n) == "returned"

\* stopgate.py:98-101  what follows the prompt's answer: the next attempt or
\* the re-raise; the clock is not read again.
PromptExitRechecked(c, elapsed, action) ==
    IF ~IsRetry(action) THEN "UserAborted"
    ELSE IF DeadlineReached(c, elapsed) THEN "DeadlineExceeded"
    ELSE "loop"
PromptExit(c, elapsed, action) ==
    IF IsRetry(action) THEN "loop" ELSE "UserAborted"

\* stopgate.py:78  start = time.monotonic(), read at the entry of each call
StartTimeOfFirstCall(t, old) == IF calls = 0 THEN t ELSE old
StartTime(t, old) == t

\* The clock advances by d while op or prompt runs.
Elapse(d) == now + d <= MaxTime /\ now' = now + d

StopInit ==
    /\ pc = "idle"
    /\ cfg \in StopConfig
    /\ now = 0
    /\ start = 0
    /\ attempts = 0
    /\ e = NoExc
    /\ captured = NoArgs
    /\ opPlan = NoOp
    /\ promptPlan = NoPrompt
    /\ opLog = <<>>
    /\ promptLog = <<>>
    /\ checks = <<>>
    /\ outcome = "none"
    /\ result = NoValue
    /\ raised = NoRaise
    /\ calls = 0

\* stopgate.py:78-79  entry of stop_until_resolved, called directly
\* (a = NoArgs) or by _inner of pause_on_error with the arguments a.
Enter(a, op, pr) ==
    /\ pc = "idle"
    /\ calls < MaxCalls
    /\ pc' = "loop"
    /\ captured' = a
    /\ opPlan' = op
    /\ promptPlan' = pr
    /\ start' = StartTime(now, start)
    /\ attempts' = 0
    /\ opLog' = <<>>
    /\ promptLog' = <<>>
    /\ checks' = <<>>
    /\ outcome' = "none"
    /\ result' = NoValue
    /\ raised' = NoRaise
    /\ e' = NoExc
    /\ UNCHANGED <<cfg, now, calls>>

\* stop_until_resolved(op, prompt=..., cfg=cfg)
stop_until_resolved ==
    \E op \in OpPlans, pr \in PromptPlans : Enter(NoArgs, op, pr)

\* stopgate.py:111-112  _inner(*args, **kwargs)
inner ==
    \E a \in ArgSet, op \in OpPlans, pr \in PromptPlans :
        Enter(a, op, pr)

\* stopgate.py:82-84  attempts += 1; return op()
Attempt ==
    /\ pc = "loop"
    /\ attempts <= MaxAttemptsBound   \* the exploration stops past the largest limit
    /\ \E d \in 0..1 : Elapse(d)
    /\ attempts' = attempts + 1
    /\ LET i   == Len(opLog) + 1
           got == LambdaArgs(captured, i)
       IN  /\ opLog' = Append(opLog, [args |-> got, out |-> OpOutcome(i)])
           /\ IF OpOutcome(i) = "ok"
                THEN /\ pc' = "done"
                     /\ outcome' = ReturnExit(cfg, now' - start, attempts')
                     /\ result' = Value(i, got)
                     /\ UNCHANGED <<e, raised>>
                ELSE IF Catches(OpError(i).type)
                THEN /\ pc' = "except"
                     /\ e' = OpError(i)
                     /\ UNCHANGED <<outcome, result, raised>>
                ELSE /\ pc' = "done"
                     /\ outcome' = "propagated"
                     /\ raised' = Reraise(OpError(i))
                     /\ UNCHANGED <<e, result>>
    /\ UNCHANGED <<cfg, start, captured, opPlan, promptPlan,
                   promptLog, checks, calls>>

\* stopgate.py:85-98  except Exception as e: the two limits, then the prompt
HandleFailure ==
    /\ pc = "except"
    /\ checks' = Append(checks, now - start)
    /\ IF FailureExit(cfg, now - start, attempts) = "DeadlineExceeded"
         THEN /\ pc' = "done"
              /\ outcome' = "DeadlineExceeded"
              /\ raised' = DeadlineError(e)
              /\ UNCHANGED promptLog
         ELSE IF FailureExit(cfg, now - start, attempts) = "MaxAttemptsExceeded"
         THEN /\ pc' = "done"
              /\ outcome' = "MaxAttemptsExceeded"
              /\ raised' = MaxAttemptsError(e)
              /\ UNCHANGED promptLog
         ELSE /\ pc' = "prompt"
              /\ promptLog' = Append(promptLog,
                     [title |-> cfg.title, msg |-> Msg(cfg, e), action |-> "pending"])
              /\ UNCHANGED <<outcome, raised>>
    /\ UNCHANGED <<cfg, now, start, attempts, e, captured, opPlan,
                   promptPlan, opLog, result, calls>>

\* stopgate.py:98-101  action = prompt(...) returns; if action != "retry": raise
PromptReturn ==
    /\ pc = "prompt"
    /\ \E d \in 0..1 : Elapse(d)
    /\ LET n      == Len(promptLog)
           action == PromptDecision(n)
       IN  /\ promptLog' = [promptLog EXCEPT ![n].action = action]
           /\ IF PromptExit(cfg, now' - start, action) = "loop"
                THEN /\ pc' = "loop"
                     /\ UNCHANGED <<outcome, raised>>
                ELSE /\ pc' = "done"
                     /\ outcome' = PromptExit(cfg, now' - start, action)
                     /\ raised' = Reraise(e)
    /\ UNCHANGED <<cfg, start, attempts, e, captured, opPlan,
                   promptPlan, opLog, checks, result, calls>>

\* The call has returned or raised: its locals are gone.
Leave ==
    /\ pc = "done"
    /\ pc' = "idle"
    /\ calls' = calls + 1
    /\ start' = 0
    /\ attempts' = 0
    /\ e' = NoExc
    /\ captured' = NoArgs
    /\ opLog' = <<>>
    /\ promptLog' = <<>>
    /\ checks' = <<>>
    /\ outcome' = "none"
    /\ result' = NoValue
    /\ raised' = NoRaise
    /\ opPlan' = NoOp
    /\ promptPlan' = NoPrompt
    /\ UNCHANGED <<cfg, now>>


(***************************************************************************)
(* file_gate.py                                                            *)
(***************************************************************************)

MaxLen == 2   \* longest content explored, in characters
MaxTmp == 2   \* temporary names NamedTemporaryFile can pick from, per directory

\* Characters of the content: one ASCII, one outside ASCII.
Chars == {"h", "é"}
Texts == UNION {[1..n -> Chars] : n \in 0..MaxLen}
Encodings == {"utf-8", "ascii"}

\* A file that does not exist, and the failure of str.encode; both are byte
\* strings no file can hold.
Absent == <<-1>>
EncodeError == <<-2>>

\* str.encode(encoding), character by character.
EncodeChar(ch, enc) ==
    IF ch = "h" THEN <<104>>
    ELSE IF enc = "utf-8" THEN <<195, 169>>
    ELSE EncodeError

RECURSIVE EncodeFrom(_, _, _)
EncodeFrom(text, enc, i) ==
    IF i > Len(text) THEN <<>>
    ELSE LET head == EncodeChar(text[i], enc)
             rest == EncodeFrom(text, enc, i + 1)
         IN  IF head = EncodeError \/ rest = EncodeError THEN EncodeError
             ELSE head \o rest

\* file_gate.py:135  content.encode(encoding)
EncodeReplacing(text, enc) == [i \in 1..Len(text) |-> IF text[i] = "h" THEN 104 ELSE 63]
Encode(text, enc) == EncodeFrom(text, enc, 1)

\* bytes.decode(encoding): the text a reader gets from the bytes of a file;
\* DecodeError when the bytes are not valid in the encoding.
DecodeError == <<"?", "?", "?", "?", "?", "?", "?", "?", "?">>
RECURSIVE DecodeFrom(_, _, _)
DecodeFrom(bytes, enc, i) ==
    IF i > Len(bytes) THEN <<>>
    ELSE IF bytes[i] = 104
        THEN LET rest == DecodeFrom(bytes, enc, i + 1)
             IN  IF rest = DecodeError THEN DecodeError ELSE <<"h">> \o rest
    ELSE IF enc = "utf-8" /\ bytes[i] = 195 /\ i < Len(bytes) /\ bytes[i + 1] = 169
        THEN LET rest == DecodeFrom(bytes, enc, i + 2)
             IN  IF rest = DecodeError THEN DecodeError ELSE <<"é">> \o rest
    ELSE DecodeError
Decode(bytes, enc) == DecodeFrom(bytes, enc, 1)

\* Paths.  A path is its directory and its file name.
Home == "/home/u"
Path(dir, name) == [dir |-> dir, name |-> name]
NoPath == Path("", "")
\* gate_write returned None.
NonePath == Path("", "None")
\* tk_prompt has not returned yet.
Unset == "unset"
\* What the user can type into the prompt; None: the user cancelled.
Typed == {"~/a", "/home/u/a", "/new/sub/a"}
Targets == Typed \cup {None}
Suggested == {"report.txt", "/home/u/a"}

\* file_gate.py:134  Path(target)
PathOf(t) ==
    IF t = "~/a" THEN Path("~", "a")
    ELSE IF t = "/home/u/a" THEN Path(Home, "a")
    ELSE IF t = "/new/sub/a" THEN Path("/new/sub", "a")
    ELSE Path(".", t)

\* file_gate.py:134  .expanduser()
expanduser(q) == IF q.dir = "~" THEN Path(Home, q.name) ELSE q

\* file_gate.py:130-135  the destination: the path the user gave, expanded;
\* the suggested path is only shown in the prompt.
Dest(t, sugg) == expanduser(PathOf(t))

\* file_gate.py:131  target is None
CancelledNever(t) == FALSE
Cancelled(t) == t = None

\* Directories: the ancestors mkdir(parents=True) creates, outermost first.
AllDirs == {"~", ".", Home, "/new", "/new/sub"}
Ancestors(d) == IF d = "/new/sub" THEN <<"/new", "/new/sub">> ELSE <<d>>
\* tempfile: the names NamedTemporaryFile draws from ("tmp" and random text).
TmpName(i) == "tmp" \o ToString(i)
TmpPool == {TmpName(i) : i \in 1..MaxTmp}
FileNames == {"a", "report.txt"} \cup TmpPool
AllFiles == {Path(d, n) : d \in AllDirs, n \in FileNames}
\* The destinations a call can have.
Destinations == {Path(Home, "a"), Path("/new/sub", "a")}
\* What a destination held before the call.
OldContent == <<111, 108, 100>>

\* file_gate.py:106  dir=str(path.parent): the directory the temporary file
\* is made in, given the destination d
TmpDirDefault(d) == "."
TmpDir(d) == d.dir

\* file_gate.py:110  os.replace(src, dst): dst names what src named, and the
\* name src is gone
os_replaceCopying(fs, src, dst) == [fs EXCEPT ![dst] = fs[src]]
os_replace(fs, src, dst) == [fs EXCEPT ![dst] = fs[src], ![src] = Absent]

\* file_gate.py:106-108  the file the data is written to: the temporary file
WriteTargetDirect(d, t) == d
WriteTarget(d, t) == t

VARIABLES
    gpc,        \* position in gate_write / _atomic_replace
    suggested,  \* gate_write's argument path
    content,    \* gate_write's argument content
    encoding,   \* gate_write's argument encoding
    target,     \* what tk_prompt returned
    dest,       \* local dest
    data,       \* content.encode(encoding)
    tmp,        \* tmp.name
    pending,    \* bytes of data given to tmp.write and not yet in the file
    dirs,       \* the directories that exist
    files,      \* the content of every file, Absent when it does not exist
    before,     \* dirs and files when gate_write was called
    steps,      \* history: the filesystem steps and notices of the call
    toasts,     \* the notices shown by tk_toast
    gresult,    \* the path gate_write returned (NoPath: None or not returned)
    graised,    \* the exception that left gate_write ("none": none)
    failure,    \* history: the exception a step of the call raised
    observed    \* what a concurrent reader last read at a destination

gateVars == <<gpc, suggested, content, encoding, target, dest, data, tmp,
              pending, dirs, files, before, steps, toasts, gresult, graised,
              failure, observed>>

NoSnapshot == [dirs |-> {}, files |-> [f \in AllFiles |-> Absent]]
NotRead == [path |-> NoPath, content |-> Absent]

GateLocalsInit ==
    /\ gpc = "idle"
    /\ suggested = "report.txt"
    /\ content = <<>>
    /\ encoding = "utf-8"
    /\ target = Unset
    /\ dest = NoPath
    /\ data = <<>>
    /\ tmp = NoPath
    /\ pending = <<>>
    /\ before = NoSnapshot
    /\ steps = <<>>
    /\ toasts = <<>>
    /\ gresult = NoPath
    /\ graised = "none"
    /\ failure = "none"
    /\ observed = NotRead

\* The filesystem before the call: the home directory exists, /new and
\* /new/sub may; a destination in an existing directory may hold old content
\* and a temporary name may be taken by a file left behind earlier.
GateInit ==
    /\ GateLocalsInit
    /\ dirs \in {{Home}, {Home, "/new"}, {Home, "/new", "/new/sub"}}
    /\ \E held \in SUBSET (Destinations \cup {Path(Home, TmpName(1))}) :
          /\ \A f \in held : f.dir \in dirs
          /\ files = [f \in AllFiles |-> IF f \in held THEN OldContent ELSE Absent]

\* The file gate is not used.
GateParked ==
    /\ GateLocalsInit
    /\ dirs = {Home}
    /\ files = [f \in AllFiles |-> Absent]

StopParked ==
    /\ pc = "idle"
    /\ cfg = [max_attempts |-> 1, deadline_s |-> 0, show_details |-> TRUE,
              title |-> "Action required"]
    /\ now = 0
    /\ start = 0
    /\ attempts = 0
    /\ e = NoExc
    /\ captured = NoArgs
    /\ opPlan = NoOp
    /\ promptPlan = NoPrompt
    /\ opLog = <<>>
    /\ promptLog = <<>>
    /\ checks = <<>>
    /\ outcome = "none"
    /\ result = NoValue
    /\ raised = NoRaise
    /\ calls = 0

\* file_gate.py:103-110, 130-137  no handler: the exception of a failing
\* step leaves _atomic_replace and gate_write, and no later line runs.
RaiseSwallowed(err) ==
    /\ gpc' = "toast"
    /\ graised' = graised
Raise(err) ==
    /\ gpc' = "raised"
    /\ graised' = err

\* A step of the call fails with err.
Fails(err) == failure' = err /\ Raise(err)

\* file_gate.py:113  gate_write(path, content, encoding=encoding) is called
GateWrite ==
    /\ gpc = "idle"
    /\ \E sg \in Suggested, c \in Texts, enc \in Encodings :
          /\ suggested' = sg
          /\ content' = c
          /\ encoding' = enc
    /\ before' = [dirs |-> dirs, files |-> files]
    /\ gpc' = "prompt"
    /\ UNCHANGED <<target, dest, data, tmp, pending, dirs, files, steps, toasts,
                   gresult, graised, failure, observed>>

\* file_gate.py:130-131  target = tk_prompt(...) returns
TkPrompt ==
    /\ gpc = "prompt"
    /\ \E t \in Targets :
          /\ target' = t
          /\ gpc' = IF Cancelled(t) THEN "cancel" ELSE "path"
    /\ UNCHANGED <<suggested, content, encoding, dest, data, tmp, pending, dirs,
                   files, before, steps, toasts, gresult, graised, failure, observed>>

\* file_gate.py:132-133  tk_toast("Write cancelled"); return None
Cancel ==
    /\ gpc = "cancel"
    /\ toasts' = Append(toasts, [text |-> "Write cancelled", path |-> NoPath])
    /\ gresult' = NonePath
    /\ gpc' = "done"
    /\ UNCHANGED <<suggested, content, encoding, target, dest, data, tmp, pending,
                   dirs, files, before, steps, graised, failure, observed>>

\* file_gate.py:134-135  dest = Path(target).expanduser(); content.encode(encoding)
Resolve ==
    /\ gpc = "path"
    /\ dest' = Dest(target, suggested)
    /\ LET bytes == Encode(content, encoding)
       IN  IF bytes = EncodeError
             THEN Fails("UnicodeEncodeError") /\ data' = data
             ELSE gpc' = "mkdir" /\ data' = bytes /\ graised' = graised /\ failure' = failure
    /\ UNCHANGED <<suggested, content, encoding, target, tmp, pending, dirs, files,
                   before, steps, toasts, gresult, observed>>

\* file_gate.py:105  path.parent.mkdir(parents=True, exist_ok=True): the
\* missing ancestors are created outermost first; a failure stops it.
Mkdir ==
    /\ gpc = "mkdir"
    /\ LET anc == Ancestors(dest.dir)
       IN  \E made \in 0..Len(anc) :
              /\ dirs' = dirs \cup {anc[i] : i \in 1..made}
              /\ IF made = Len(anc)
                   THEN /\ gpc' = "mkstemp"
                        /\ steps' = Append(steps, "mkdir")
                        /\ graised' = graised /\ failure' = failure
                   ELSE /\ anc[made + 1] \notin dirs
                        /\ Fails("OSError")
                        /\ steps' = steps
    /\ UNCHANGED <<suggested, content, encoding, target, dest, data, tmp, pending,
                   files, before, toasts, gresult, observed>>

\* file_gate.py:106  NamedTemporaryFile("wb", delete=False, dir=str(path.parent)):
\* a new file, under a name no file of the directory has
MakeTemp ==
    /\ gpc = "mkstemp"
    /\ \E ok \in BOOLEAN :
          IF ok
            THEN \E n \in TmpPool :
                    /\ files[Path(TmpDir(dest), n)] = Absent
                    /\ tmp' = Path(TmpDir(dest), n)
                    /\ files' = [files EXCEPT ![Path(TmpDir(dest), n)] = <<>>]
                    /\ steps' = Append(steps, "mkstemp")
                    /\ gpc' = "write"
                    /\ graised' = graised /\ failure' = failure
            ELSE /\ Fails("OSError")
                 /\ UNCHANGED <<tmp, files, steps>>
    /\ UNCHANGED <<suggested, content, encoding, target, dest, data, pending, dirs,
                   before, toasts, gresult, observed>>

\* file_gate.py:107  tmp.write(data): the bytes go to the file object's buffer
Write ==
    /\ gpc = "write"
    /\ pending' = data
    /\ steps' = Append(steps, "write")
    /\ gpc' = "flush"
    /\ UNCHANGED <<suggested, content, encoding, target, dest, data, tmp, dirs,
                   files, before, toasts, gresult, graised, failure, observed>>

\* The file f with the bytes b written at its end.
Extended(fs, f, b) ==
    [fs EXCEPT ![f] = (IF @ = Absent THEN <<>> ELSE @) \o b]

\* file_gate.py:108  tmp.flush(): the buffer reaches the file, one write at a
\* time; a write can fail (the with block then closes the file)
Flush ==
    /\ gpc = "flush"
    /\ \E ok \in BOOLEAN :
          IF ~ok
            THEN /\ Fails("OSError")
                 /\ steps' = Append(steps, "close")
                 /\ UNCHANGED <<files, pending>>
            ELSE /\ graised' = graised /\ failure' = failure
                 /\ IF pending = <<>>
                      THEN /\ gpc' = "fsync"
                           /\ steps' = Append(steps, "flush")
                           /\ UNCHANGED <<files, pending>>
                      ELSE /\ files' = Extended(files, WriteTarget(dest, tmp),
                                                <<Head(pending)>>)
                           /\ pending' = Tail(pending)
                           /\ UNCHANGED <<gpc, steps>>
    /\ UNCHANGED <<suggested, content, encoding, target, dest, data, tmp, dirs,
                   before, toasts, gresult, observed>>

\* file_gate.py:109  os.fsync(tmp.fileno())
Fsync ==
    /\ gpc = "fsync"
    /\ \E ok \in BOOLEAN :
          IF ok
            THEN /\ steps' = Append(steps, "fsync")
                 /\ gpc' = "close"
                 /\ graised' = graised /\ failure' = failure
            ELSE /\ Fails("OSError")
                 /\ steps' = Append(steps, "close")
    /\ UNCHANGED <<suggested, content, encoding, target, dest, data, tmp, pending,
                   dirs, files, before, toasts, gresult, observed>>

\* file_gate.py:106  the with block ends: the temporary file is closed
Close ==
    /\ gpc = "close"
    /\ steps' = Append(steps, "close")
    /\ gpc' = "replace"
    /\ UNCHANGED <<suggested, content, encoding, target, dest, data, tmp, pending,
                   dirs, files, before, toasts, gresult, graised, failure, observed>>

\* file_gate.py:110  os.replace(tmp.name, path): one rename, or a failure
\* that changes nothing
Replace ==
    /\ gpc = "replace"
    /\ \E ok \in BOOLEAN :
          IF ok
            THEN /\ files' = os_replace(files, tmp, dest)
                 /\ steps' = Append(steps, "replace")
                 /\ gpc' = "toast"
                 /\ graised' = graised /\ failure' = failure
            ELSE /\ Fails("OSError")
                 /\ UNCHANGED <<files, steps>>
    /\ UNCHANGED <<suggested, content, encoding, target, dest, data, tmp, pending,
                   dirs, before, toasts, gresult, observed>>

\* file_gate.py:136-137  tk_toast(f"Wrote {dest}"); return dest
Wrote ==
    /\ gpc = "toast"
    /\ toasts' = Append(toasts, [text |-> "Wrote", path |-> dest])
    /\ gresult' = dest
    /\ gpc' = "done"
    /\ UNCHANGED <<suggested, content, encoding, target, dest, data, tmp, pending,
                   dirs, files, before, steps, graised, failure, observed>>

\* Another process reads the destination while gate_write runs.
Reader ==
    /\ gpc \in {"mkdir", "mkstemp", "write", "flush", "fsync", "close", "replace",
                "toast"}
    /\ observed' = [path |-> dest, content |-> files[dest]]
    /\ observed' # observed
    /\ UNCHANGED <<gpc, suggested, content, encoding, target, dest, data, tmp,
                   pending, dirs, files, before, steps, toasts, gresult, graised,
                   failure>>

vars == <<stopVars, gateVars>>

StopNext ==
    \/ stop_until_resolved /\ UNCHANGED gateVars
    \/ inner /\ UNCHANGED gateVars
    \/ Attempt /\ UNCHANGED gateVars
    \/ HandleFailure /\ UNCHANGED gateVars
    \/ PromptReturn /\ UNCHANGED gateVars
    \/ Leave /\ UNCHANGED gateVars

\* The retry loop alone.
StopSpecInit == StopInit /\ GateParked
StopSpec == StopSpecInit /\ [][StopNext]_vars

GateNext ==
    \/ GateWrite /\ UNCHANGED stopVars
    \/ TkPrompt /\ UNCHANGED stopVars
    \/ Cancel /\ UNCHANGED stopVars
    \/ Resolve /\ UNCHANGED stopVars
    \/ Mkdir /\ UNCHANGED stopVars
    \/ MakeTemp /\ UNCHANGED stopVars
    \/ Write /\ UNCHANGED stopVars
    \/ Flush /\ UNCHANGED stopVars
    \/ Fsync /\ UNCHANGED stopVars
    \/ Close /\ UNCHANGED stopVars
    \/ Replace /\ UNCHANGED stopVars
    \/ Wrote /\ UNCHANGED stopVars
    \/ Reader /\ UNCHANGED stopVars

\* The retry loop alone, when every call of op and of prompt comes back: a
\* step of the running call that can be taken is eventually taken.
LoopStep == (Attempt \/ HandleFailure \/ PromptReturn) /\ UNCHANGED gateVars
StopFairSpec == StopSpec /\ WF_vars(LoopStep)

\* The file gate alone.
GateSpecInit == GateInit /\ StopParked
GateSpec == GateSpecInit /\ [][GateNext]_vars

(***************************************************************************)
(* Properties of stop_until_resolved and pause_on_error.                   *)
(***************************************************************************)

\* The operation fails on its first k-1 invocations and succeeds on the k-th.
SucceedsAt(k) ==
    /\ k \in DOMAIN opPlan
    /\ opPlan[k] = "ok"
    /\ \A i \in 1..(k - 1) : opPlan[i] = "fail"
AlwaysFails == \A i \in DOMAIN opPlan : opPlan[i] = "fail"
AlwaysRetry == \A i \in DOMAIN promptPlan : promptPlan[i] = "retry"
AlwaysAbort == \A i \in DOMAIN promptPlan : promptPlan[i] = "abort"
\* The deadline had not elapsed at any of the failure checks made so far.
NoDeadlineHit ==
    \A i \in 1..Len(checks) : ~(cfg.deadline_s > 0 /\ checks[i] >= cfg.deadline_s)
Running == pc # "idle"
Finished == pc = "done"

\* C1: if the operation fails k-1 times and then succeeds, 1 <= k <=
\* max_attempts, the prompt always answers Retry and the deadline has not
\* elapsed at any failure check, the call returns the value of the k-th
\* invocation, having invoked the operation exactly k times.
C1_ReturnsKthValue ==
    \A k \in 1..cfg.max_attempts :
        (Finished /\ SucceedsAt(k) /\ AlwaysRetry /\ NoDeadlineHit) =>
            /\ outcome = "returned"
            /\ result = Value(k, captured)
            /\ Len(opLog) = k
            /\ attempts = k
            /\ 1 <= Len(opLog) /\ Len(opLog) <= cfg.max_attempts

\* C1 witness: success on the last allowed attempt, under a deadline that is
\* set and was never reached at the two failure checks before it.
C1_Witness ==
    /\ Finished /\ outcome = "returned"
    /\ Len(opLog) = 3 /\ cfg.max_attempts = 3
    /\ AlwaysRetry /\ cfg.deadline_s > 0 /\ Len(checks) = 2 /\ now > start

\* C2 as stated: for every max_attempts >= 1, an operation that always fails
\* under a prompt that always answers Abort ends at the user-abort exit after
\* exactly one invocation.
C2_AbortAfterOneAttempt_Original ==
    (Finished /\ AlwaysFails /\ AlwaysAbort /\ NoDeadlineHit) =>
        (outcome = "UserAborted" /\ Len(opLog) = 1)

\* C2 amended: the same, for max_attempts >= 2.  With max_attempts = 1 the
\* attempt limit is reached at the first failure and the prompt is not asked.
C2_AbortAfterOneAttempt ==
    (Finished /\ AlwaysFails /\ AlwaysAbort /\ NoDeadlineHit
        /\ cfg.max_attempts >= 2) =>
        (outcome = "UserAborted" /\ Len(opLog) = 1 /\ Len(promptLog) = 1)

C2_Witness ==
    /\ Finished /\ AlwaysFails /\ AlwaysAbort /\ cfg.max_attempts >= 2
    /\ outcome = "UserAborted" /\ Len(opLog) = 1

\* C3: with deadline_s = 0, an operation that always fails under a prompt
\* that always answers Retry is invoked exactly max_attempts times, never
\* more, and the call ends with MaxAttemptsExceeded; until it has ended a
\* step of the loop is always possible, and each step adds an invocation or
\* a prompt, so the call does end.
C3_MaxAttemptsExactly ==
    (Running /\ cfg.deadline_s = 0 /\ AlwaysFails /\ AlwaysRetry) =>
        /\ Len(opLog) <= cfg.max_attempts
        /\ Len(promptLog) <= cfg.max_attempts - 1
        /\ outcome \in {"none", "MaxAttemptsExceeded"}
        /\ ~Finished => ENABLED (Attempt \/ HandleFailure \/ PromptReturn)
        /\ Finished => /\ outcome = "MaxAttemptsExceeded"
                       /\ Len(opLog) = cfg.max_attempts
                       /\ Len(promptLog) = cfg.max_attempts - 1

C3_Witness ==
    /\ Finished /\ cfg.deadline_s = 0 /\ AlwaysFails /\ AlwaysRetry
    /\ outcome = "MaxAttemptsExceeded" /\ Len(opLog) = 3 /\ now - start >= 2

\* C4: when the elapsed time read at a failure is >= deadline_s > 0, the call
\* ends with DeadlineExceeded caused by that failure, whatever max_attempts
\* is, and the prompt is not called for that failure.
C4_DeadlineTakesPrecedence ==
    LET n == Len(checks) IN
    (n > 0 /\ cfg.deadline_s > 0 /\ checks[n] >= cfg.deadline_s) =>
        /\ Finished
        /\ outcome = "DeadlineExceeded"
        /\ raised = DeadlineError(OpError(Len(opLog)))
        /\ Len(opLog) = n
        /\ Len(promptLog) = n - 1

\* C4 witness: the deadline and the attempt limit are both reached at the
\* same failure, and the call ends with DeadlineExceeded.
C4_Witness ==
    /\ Finished /\ outcome = "DeadlineExceeded"
    /\ attempts >= cfg.max_attempts /\ attempts >= 2

\* The three exits that raise, and whether the raised exception is a new
\* one (not an exception of the operation).
FailureExits == {"DeadlineExceeded", "MaxAttemptsExceeded", "UserAborted"}
LastError == OpError(Len(opLog))

C10_WrapperForwardsArgs ==
    (Running /\ captured \in ArgSet) =>
        /\ \A i \in 1..Len(opLog) : opLog[i].args = captured
        /\ Len(opLog) = attempts
        /\ (Finished /\ outcome = "returned") =>
              result = Value(Len(opLog), captured)
        /\ (Finished /\ SucceedsAt(3) /\ AlwaysRetry /\ NoDeadlineHit
                /\ cfg.max_attempts >= 3) =>
              /\ outcome = "returned"
              /\ Len(opLog) = 3
              /\ result = Value(3, captured)

C10_Witness ==
    /\ Finished /\ captured = "y" /\ outcome = "returned"
    /\ Len(opLog) = 3 /\ Len(promptLog) = 2
    /\ \A i \in 1..3 : opLog[i].args = "y"

\* The last invocation of the operation, when there is one, succeeded.
LastSucceeded == Len(opLog) > 0 /\ opLog[Len(opLog)].out = "ok"

\* C11: a successful invocation ends the call at once with its value: the
\* deadline and the attempt limit are not consulted for it, even when the
\* elapsed time is >= deadline_s or attempts >= max_attempts at that moment.
C11_SuccessReturnsUnchecked ==
    (Running /\ LastSucceeded) =>
        /\ Finished
        /\ outcome = "returned"
        /\ result = Value(Len(opLog), captured)
        /\ raised = NoRaise
        /\ Len(checks) = Len(opLog) - 1
        /\ Len(promptLog) = Len(opLog) - 1

\* C11 witness: success on the max_attempts-th attempt, which ended after the
\* deadline had passed.
C11_Witness ==
    /\ Finished /\ outcome = "returned"
    /\ cfg.deadline_s > 0 /\ now - start >= cfg.deadline_s
    /\ attempts = cfg.max_attempts /\ attempts >= 2

\* The failed attempts so far that reached neither the deadline nor the
\* attempt limit at their check.
Prompted ==
    {i \in 1..Len(checks) :
        /\ opLog[i].out = "fail"
        /\ ~(cfg.deadline_s > 0 /\ checks[i] >= cfg.deadline_s)
        /\ i < cfg.max_attempts}

\* C12: operation and prompt alternate, starting with the operation: the
\* i-th prompt follows the i-th invocation, which failed within both limits,
\* and precedes the (i+1)-th; no prompt follows a success; an invocation
\* after the first follows a prompt answered Retry; and once a prompt is
\* answered otherwise the call is over and the operation is not invoked again.
C12_OperationAndPromptAlternate ==
    Running =>
        /\ Len(promptLog) <= Len(opLog)
        /\ Len(opLog) <= Len(promptLog) + 1
        /\ pc = "loop" => Len(opLog) = Len(promptLog)
        /\ pc = "except" => Len(opLog) = Len(promptLog) + 1
        /\ pc = "prompt" =>
              /\ Len(opLog) = Len(promptLog)
              /\ promptLog[Len(promptLog)].action = "pending"
        /\ \A i \in 1..Len(promptLog) :
              /\ opLog[i].out = "fail"
              /\ i < Len(opLog) => promptLog[i].action = "retry"
              /\ promptLog[i].action \notin {"retry", "pending"} =>
                    /\ Finished /\ outcome = "UserAborted"
                    /\ i = Len(promptLog) /\ i = Len(opLog)
        /\ pc # "except" => Cardinality(Prompted) = Len(promptLog)
        /\ LastSucceeded => Len(promptLog) = Len(opLog) - 1

\* C12 witness: a prompt answered Retry between two invocations, then a
\* second prompt answered Abort, after which nothing more is invoked.
C12_Witness ==
    /\ Finished /\ outcome = "UserAborted"
    /\ Len(opLog) = 2 /\ Len(promptLog) = 2
    /\ promptLog[1].action = "retry" /\ promptLog[2].action = "abort"

\* The ways a call ends.
Outcomes == {"returned", "UserAborted", "MaxAttemptsExceeded", "DeadlineExceeded"}

C13_Bounded ==
    Running =>
        /\ Len(opLog) <= cfg.max_attempts
        /\ Len(promptLog) <= cfg.max_attempts - 1
        /\ Finished <=> outcome \in Outcomes
        /\ ~Finished => outcome = "none"
        /\ outcome = "returned" <=> (result # NoValue)
        /\ outcome \in Outcomes \ {"returned"} <=> (raised # NoRaise)

Failed(i) == i \in 1..Len(opLog) /\ opLog[i].out # "ok"
\* The two limits have been tested for the i-th failure.
Checked(i) == i <= Len(checks)

NoDeadline == cfg.deadline_s = 0

\* C15: with deadline_s = 0 a call never ends with DeadlineExceeded, however
\* much time has elapsed at a failure; a call that fails ends with
\* MaxAttemptsExceeded or UserAborted.
C15_ZeroMeansNoDeadline ==
    (Running /\ NoDeadline) =>
        /\ outcome # "DeadlineExceeded"
        /\ (Finished /\ raised # NoRaise) =>
              outcome \in {"MaxAttemptsExceeded", "UserAborted"}
        /\ \A i \in 1..Len(checks) :
              FailureExit(cfg, checks[i], i) # "DeadlineExceeded"

\* C15 witness: no deadline, time has passed at each of two failures, and
\* the call went on to its attempt limit.
C15_Witness ==
    /\ NoDeadline /\ Finished /\ outcome = "MaxAttemptsExceeded"
    /\ Len(checks) = 2 /\ checks[1] >= 1 /\ checks[2] >= 2

\* C16: each prompt call receives cfg.title and a message naming the error
\* of the attempt that just failed, and the error's text is in the message
\* exactly when cfg.show_details is true.  The code never reads
\* show_details: the text is in the message also when it is false.
C16_DetailsOnlyIfShowDetails ==
    \A i \in 1..Len(promptLog) :
        /\ promptLog[i].title = cfg.title
        /\ promptLog[i].msg.name = ErrTypeOf(i)
        /\ (promptLog[i].msg.text # "") <=> cfg.show_details

\* C16 witness: show_details is false and the prompt was called with the
\* error's text in the message.
C16_Witness ==
    /\ ~cfg.show_details
    /\ Len(promptLog) >= 1
    /\ promptLog[1].msg.text = "op failed"

\* The number of invocations of op that failed.
Failures == Cardinality({i \in 1..Len(opLog) : opLog[i].out # "ok"})

\* C18: the deadline is tested once per failed attempt, after the failure
\* and before the prompt, and not again when the prompt returns: after a
\* Retry the operation is invoked again however much time the prompt took,
\* and DeadlineExceeded is raised only right after a failed attempt.
C18_DeadlineCheckedOncePerFailure ==
    Running =>
        /\ Len(checks) = Failures - (IF pc = "except" THEN 1 ELSE 0)
        /\ Len(promptLog) <= Len(checks)
        /\ \A i \in 1..Len(promptLog) :
              /\ ~DeadlineReached(cfg, checks[i])
              /\ promptLog[i].action = "retry" =>
                    \/ Len(opLog) > i
                    \/ pc = "loop" /\ Len(opLog) = i /\ ENABLED Attempt
        /\ outcome = "DeadlineExceeded" =>
              /\ Len(checks) = Len(opLog)
              /\ Len(promptLog) = Len(opLog) - 1
              /\ opLog[Len(opLog)].out # "ok"
              /\ DeadlineReached(cfg, checks[Len(checks)])
              /\ raised = DeadlineError(OpError(Len(opLog)))

\* C18 witness: the deadline passed while the first prompt was waiting, the
\* answer was Retry, and the loop is at its second invocation of op.
C18_Witness ==
    /\ pc = "loop" /\ Len(opLog) = 1
    /\ cfg.deadline_s = 1
    /\ checks = <<0>>
    /\ Len(promptLog) = 1 /\ promptLog[1].action = "retry"
    /\ now - start = 1
    /\ ENABLED Attempt

\* C19: every call of stop_until_resolved begins with attempts = 0 and a
\* start time read at its own entry, whatever the calls before it did; its
\* attempt limit and its deadline are counted from there.
C19_CallsAreIndependent ==
    Running =>
        /\ attempts = Len(opLog)
        /\ start <= now
        /\ (pc = "loop" /\ opLog = <<>>) => (attempts = 0 /\ start = now)
        /\ \A i \in 1..Len(checks) : checks[i] <= now - start
        /\ outcome = "MaxAttemptsExceeded" => Len(opLog) = cfg.max_attempts
        /\ outcome = "DeadlineExceeded" => now - start >= cfg.deadline_s

\* C19 witness: a call made after an earlier call had ended, at a later
\* time, used all of its max_attempts invocations.
C19_Witness ==
    /\ calls = 1 /\ start >= 1
    /\ Finished /\ outcome = "MaxAttemptsExceeded"
    /\ cfg.max_attempts = 3 /\ Len(opLog) = 3
    /\ cfg.deadline_s = 2

(***************************************************************************)
(* Properties of gate_write and _atomic_replace.                           *)
(***************************************************************************)

\* The rename of the call has completed.
Renamed == \E i \in 1..Len(steps) : steps[i] = "replace"
\* The bytes the call is to write.
NewContent == Encode(content, encoding)
\* The call has a destination: tk_prompt returned a path.
HasDest == dest # NoPath

\* C6: at every point of a write the destination holds its prior content
\* (or is absent) until the rename has completed, and exactly the new content
\* afterwards; a concurrent reader of the destination sees one or the other.
C6_ReaderSeesOldOrNew ==
    HasDest =>
        /\ ~Renamed => files[dest] = before.files[dest]
        /\ Renamed => files[dest] = NewContent
        /\ observed.path = dest =>
              observed.content \in {before.files[dest], NewContent}

\* C6 witness: the temporary file holds a proper part of the new content
\* while a reader has just read the old content at the destination.
C6_Witness ==
    /\ gpc = "flush" /\ pending # <<>> /\ files[tmp] # <<>>
    /\ files[tmp] # NewContent
    /\ before.files[dest] = OldContent
    /\ observed = [path |-> dest, content |-> OldContent]

\* C7: when a step of the write fails, the failure leaves gate_write, no
\* success notice is shown, nothing is returned and the destination is as it
\* was before the call.
C7_FailureLeavesDestination ==
    failure # "none" =>
        /\ gpc = "raised"
        /\ graised = failure
        /\ toasts = <<>>
        /\ gresult = NoPath
        /\ HasDest /\ files[dest] = before.files[dest]

\* C7 witness: the rename itself failed, after the whole content reached the
\* temporary file, over a destination that held old content.
C7_Witness ==
    /\ gpc = "raised" /\ failure = "OSError"
    /\ steps # <<>> /\ steps[Len(steps)] = "close"
    /\ \E i \in 1..Len(steps) : steps[i] = "fsync"
    /\ files[tmp] = NewContent /\ NewContent # <<>>
    /\ files[dest] = OldContent

\* C8: when the prompt returns None, gate_write shows the cancellation
\* notice and returns None, and no file or directory is created or changed.
C8_CancelTouchesNothing ==
    target = None =>
        /\ gpc \in {"cancel", "done"}
        /\ files = before.files
        /\ dirs = before.dirs
        /\ steps = <<>>
        /\ dest = NoPath /\ tmp = NoPath
        /\ graised = "none"
        /\ gpc = "cancel" => toasts = <<>> /\ gresult = NoPath
        /\ gpc = "done" =>
              /\ toasts = <<[text |-> "Write cancelled", path |-> NoPath]>>
              /\ gresult = NonePath

C8_Witness ==
    /\ target = None /\ gpc = "done" /\ gresult = NonePath
    /\ suggested = "/home/u/a" /\ content # <<>>
    /\ files[Path(Home, "a")] = Absent

\* C9 as stated: when the prompt returns the path p and no step fails,
\* gate_write returns p and the file at p holds exactly the content.
C9_RoundTrip_Original ==
    (gpc = "done" /\ target \in Typed) =>
        /\ gresult = PathOf(target)
        /\ Decode(files[PathOf(target)], encoding) = content

\* C9 amended: gate_write returns p with the user-home shorthand expanded,
\* and the file at that expanded path holds exactly the encoded content,
\* which decodes to the content, whatever the suggested path is and whether
\* or not a file was there before.
C9_RoundTrip ==
    (gpc = "done" /\ target \in Typed) =>
        /\ gresult = expanduser(PathOf(target))
        /\ files[gresult] = Encode(content, encoding)
        /\ Decode(files[gresult], encoding) = content
        /\ failure = "none"

\* C9 witness: a path given with "~", over an existing file, differing from
\* the suggested path, with content outside ASCII.
C9_Witness ==
    /\ gpc = "done" /\ target = "~/a" /\ suggested = "report.txt"
    /\ before.files[Path(Home, "a")] = OldContent
    /\ content = <<"h", "é">>
    /\ files[Path(Home, "a")] = <<104, 195, 169>>

\* The filesystem steps of a write, in the order of the code.
StepOrder == <<"mkdir", "mkstemp", "write", "flush", "fsync", "close", "replace">>
\* The first k steps.
FirstSteps(k) == SubSeq(StepOrder, 1, k)
\* The step s has been taken.
Done(s) == \E i \in 1..Len(steps) : steps[i] = s
\* The success notice has been shown.
WroteShown == \E i \in 1..Len(toasts) : toasts[i].text = "Wrote"

\* C17: when gate_write is given a path its steps are taken in this order:
\* parent directories, a new temporary file in the destination's directory,
\* the whole content written, flushed, forced to storage, the file closed,
\* and then the rename; the success notice comes after the rename.  The
\* rename never comes before the fsync and the temporary file is never in
\* another directory than the destination.
C17_StepsInOrder ==
    HasDest =>
        /\ \/ \E k \in 0..Len(StepOrder) : steps = FirstSteps(k)
           \/ /\ failure # "none"
              /\ \E k \in 3..4 : steps = Append(FirstSteps(k), "close")
        /\ Renamed => (steps = StepOrder /\ Done("fsync") /\ Done("close"))
        /\ Done("mkstemp") =>
              /\ tmp.dir = dest.dir
              /\ before.files[tmp] = Absent
              /\ dest.dir \in dirs
        /\ Done("flush") => pending = <<>>
        /\ (Done("flush") /\ ~Renamed) => files[tmp] = data
        /\ WroteShown =>
              /\ Renamed
              /\ toasts = <<[text |-> "Wrote", path |-> dest]>>
        /\ gresult # NoPath => WroteShown

\* C17 witness: a write into a directory that had to be created went through
\* every step and showed the notice.
C17_Witness ==
    /\ gpc = "done" /\ steps = StepOrder /\ WroteShown
    /\ dest = Path("/new/sub", "a") /\ "/new" \notin before.dirs
    /\ data # <<>>

\* gate_write has returned the path it wrote.
ReturnedPath == gpc = "done" /\ gresult # NonePath /\ gresult # NoPath
\* The directories mkdir(parents=True) makes sure of for the destination.
ParentDirs == {Ancestors(dest.dir)[i] : i \in 1..Len(Ancestors(dest.dir))}

\* C20: after a gate_write that returned its path, no file exists under the
\* temporary name, the destination holds the new content, every other file is
\* as it was before the call, and the only directories added are parents of
\* the destination.
C20_NothingLeftBehind ==
    ReturnedPath =>
        /\ gresult = dest
        /\ files[tmp] = Absent
        /\ files[dest] = NewContent
        /\ \A f \in AllFiles \ {dest} : files[f] = before.files[f]
        /\ dirs = before.dirs \cup ParentDirs

\* C20 witness: a returned write that replaced old content, made its
\* temporary file next to a file left behind by an earlier temporary name,
\* and left that one alone.
C20_Witness ==
    /\ ReturnedPath
    /\ before.files[dest] = OldContent /\ files[dest] # OldContent
    /\ files[Path(Home, TmpName(1))] = OldContent
    /\ tmp = Path(Home, TmpName(2))

====
